---- MODULE Spec2Model ----
(***************************************************************************)
(* Model of AppXScanner (src/scanner.ts, lines 1-416): the component       *)
(* resolver, the error ledger, the orphan pass and the hierarchy           *)
(* projection, run as check() does, one step at a time.                    *)
(*                                                                         *)
(* Logical paths and file names are tuples of path segments                *)
(* ("pages/a" is <<"pages","a">>, "pages/a.json" is                        *)
(* <<"pages","a",".json">>); strings that are searched for the "{{" and    *)
(* "}}" markers are tuples of tokens.                                      *)
(***************************************************************************)
EXTENDS Integers, Sequences, FiniteSets, TLC

VARIABLES
    disk,        \* the files under the project root (file names)
    manifests,   \* logical path -> usingComponents of <path>.json, in key order
    axml,        \* logical path -> what parseXml gives for <path>.axml
    appPages,    \* the pages array of app.json
    highlights,  \* this.highlights
    components,  \* this.components: logical path -> IComponent
    errors,      \* this.errors: [fatal, warning], each key -> list of IErrorRef
    pages,       \* this.pages, in insertion order
    phase,       \* where check() is
    run,         \* number of check() invocations started
    pageIdx,     \* checkApp: index of the last page taken from app.json
    stack,       \* the chain of active checkComponent calls, innermost last
    hasError,    \* check(): the local hasError
    queue,       \* generateHierarchy: the local queue
    tree,        \* generateHierarchy: the nodes created so far (rootNode first)
    nProcessed,  \* history: how often checkComponent went past its first line, per path
    processedIn, \* history: the run in which a path was processed (0: never)
    lastRun,     \* history: components and errors as the current check() found them
    graph,       \* analyze: the locals nodes and links, while it renders them
    repr         \* a call of reprStr on its own: the error given, the IErrorRef returned

vars == <<disk, manifests, axml, appPages, highlights, components, errors, pages,
          phase, run, pageIdx, stack, hasError, queue, tree, nProcessed,
          processedIn, lastRun, graph, repr>>

-----------------------------------------------------------------------------
(* Bounds *)

MaxRuns == 2        \* check() invocations on one scanner
MaxStack == 4       \* nested checkComponent calls before the model gives up
MaxTreeNodes == 8   \* hierarchy nodes before the model gives up
MaxInput == 4       \* characters of the text given to reprStr on its own

-----------------------------------------------------------------------------
(* Small helpers on sequences *)

Range(s) == {s[i] : i \in 1..Len(s)}

Front(s) == SubSeq(s, 1, Len(s) - 1)

Last(s) == s[Len(s)]

RECURSIVE Flatten(_)
Flatten(ss) == IF ss = <<>> THEN <<>> ELSE Head(ss) \o Flatten(Tail(ss))

\* a faulty variant: the marker is looked for at the start only
IncludesFirst(value, marker) == value # <<>> /\ value[1] = marker

\* String.prototype.includes for a marker, on a tokenised string
Includes(value, marker) == \E i \in 1..Len(value) : value[i] = marker

-----------------------------------------------------------------------------
(* The built-in vocabulary *)

builtIns ==
    {"block", "button", "canvas", "checkbox", "checkbox-group", "cover-image",
     "cover-view", "form", "icon", "image", "import-sjs", "input", "label",
     "lottie", "map", "movable-area", "movable-view", "navigator", "page-meta",
     "picker", "picker-view", "picker-view-column", "progress", "radio",
     "radio-group", "rich-text", "scroll-view", "slider", "slot", "swiper",
     "swiper-item", "switch", "template", "text", "textarea", "video", "view",
     "web-view"}

-----------------------------------------------------------------------------
(* reprStr: offset -> 1-based line and column.  lines holds the lengths of   *)
(* input.split('\n').  Past the last line lines[line] is undefined and the   *)
(* source throws; the model reports that as threw.                           *)

\* input.split('\n'), as the lengths of the lines
RECURSIVE SplitLines(_, _)
SplitLines(input, len) ==
    IF input = <<>> THEN <<len>>
    ELSE IF Head(input) = "\n" THEN <<len>> \o SplitLines(Tail(input), 0)
    ELSE SplitLines(Tail(input), len + 1)

\* a faulty variant: the end of a line counts as past it
PastLineOrAtEnd(col, len) == col >= len

\* the second half of the loop's test: col > lines[line].length
PastLine(col, len) == col > len

RECURSIVE ReprScan(_, _, _)
ReprScan(lines, line, col) ==
    IF line < Len(lines) /\ PastLine(col, lines[line + 1])
    THEN ReprScan(lines, line + 1, col - (lines[line + 1] + 1))
    ELSE [line |-> line, col |-> col]

reprStr(lines, offset, message) ==
    LET at == ReprScan(lines, 0, offset)
    IN  [message |-> message,
         line |-> at.line + 1,
         col |-> at.col + 1,
         threw |-> at.line >= Len(lines)]

\* an IErrorRef with a message only
MessageOnly(message) == [message |-> message, line |-> 0, col |-> 0, threw |-> FALSE]

-----------------------------------------------------------------------------
(* The error ledger *)

NoErrors == [fatal |-> <<>>, warning |-> <<>>]

\* addError(entry, error, type); error is the list of records pushed
addError(errs, entry, error, type) ==
    LET bucket == errs[type]
        list == IF entry \in DOMAIN bucket THEN bucket[entry] ELSE <<>>
    IN  [errs EXCEPT ![type] =
            [k \in DOMAIN bucket \cup {entry} |->
                IF k = entry THEN list \o error ELSE bucket[k]]]

ErrorsOf(errs, type, entry) ==
    IF entry \in DOMAIN errs[type] THEN errs[type][entry] ELSE <<>>

-----------------------------------------------------------------------------
(* Files *)

\* `${entry}.json` and its siblings
FileName(entry, ext) == entry \o <<ext>>

\* assertFile: TRUE when it returns, FALSE when it throws "Expect file: ..."
assertFile(files, name) == name \in files

Siblings == <<".json", ".js", ".axml", ".acss">>

\* the first of the four sibling assertions that throws, 0 when none does
FirstMissing(files, entry) ==
    IF \A i \in 1..Len(Siblings) : assertFile(files, FileName(entry, Siblings[i]))
    THEN 0
    ELSE CHOOSE i \in 1..Len(Siblings) :
            /\ ~assertFile(files, FileName(entry, Siblings[i]))
            /\ \A j \in 1..(i - 1) : assertFile(files, FileName(entry, Siblings[j]))

-----------------------------------------------------------------------------
(* Alias resolution (extractDefinitions) *)

\* path.join's normalisation of "." and ".." segments
RECURSIVE Normalize(_, _)
Normalize(done, rest) ==
    IF rest = <<>> THEN done
    ELSE IF Head(rest) = "." THEN Normalize(done, Tail(rest))
    ELSE IF Head(rest) = ".." /\ done # <<>> /\ Last(done) # ".."
         THEN Normalize(Front(done), Tail(rest))
    ELSE Normalize(Append(done, Head(rest)), Tail(rest))

\* value: the alias target as written; "/pages/a" is <<"", "pages", "a">>,
\* "./b" is <<".", "b">>, "c" is <<"c">>
ModulePath(entry, value) ==
    IF Head(value) = "" THEN Tail(value)
    ELSE IF Head(value) \in {".", ".."} THEN Normalize(<<>>, Front(entry) \o value)
    ELSE <<"node_modules">> \o value

\* the Definitions Map is a list of <<alias, modulePath>> in insertion order
DefsHas(defs, name) == \E i \in 1..Len(defs) : defs[i][1] = name

DefsGet(defs, name) == defs[CHOOSE i \in 1..Len(defs) : defs[i][1] = name][2]

DefsSet(defs, name, modulePath) ==
    IF DefsHas(defs, name)
    THEN [i \in 1..Len(defs) |->
            IF defs[i][1] = name THEN <<name, modulePath>> ELSE defs[i]]
    ELSE Append(defs, <<name, modulePath>>)

\* a faulty variant: nothing is deleted
DefsDeleteNothing(defs, name) == defs

DefsDelete(defs, name) == SelectSeq(defs, LAMBDA d : d[1] # name)

\* a faulty variant: the target's manifest is not looked for
AliasValidAlways(files, modulePath) == TRUE

\* the assertFile call that decides whether an alias enters the map
AliasValid(files, modulePath) == assertFile(files, FileName(modulePath, ".json"))

\* extractDefinitions over the entries not yet visited; the result carries the
\* map built and the ledger after the addError calls
RECURSIVE DefinitionsLoop(_, _, _, _, _)
DefinitionsLoop(files, entry, using, defs, errs) ==
    IF using = <<>> THEN [components |-> defs, errors |-> errs]
    ELSE LET key == Head(using)[1]
             modulePath == ModulePath(entry, Head(using)[2])
         IN  IF AliasValid(files, modulePath)
             THEN DefinitionsLoop(files, entry, Tail(using),
                                  DefsSet(defs, key, modulePath), errs)
             ELSE DefinitionsLoop(files, entry, Tail(using), defs,
                     addError(errs, entry,
                              <<MessageOnly(<<"Component not found: ", key>>)>>,
                              "fatal"))

extractDefinitions(files, using, entry, errs) ==
    DefinitionsLoop(files, entry, using, <<>>, errs)

-----------------------------------------------------------------------------
(* Markup trees (INode) and their traversal *)

Position(start, end) == [start |-> start, end |-> end]

Attr(value, end) == [isString |-> TRUE, value |-> value, position |-> [end |-> end]]

\* an attribute written without a value
BareAttr(end) == [isString |-> FALSE, value |-> <<>>, position |-> [end |-> end]]

Element(name, posOpen, attrs, children) ==
    [type |-> "element", name |-> name, posOpen |-> posOpen, attrs |-> attrs,
     value |-> <<>>, children |-> children]

Text(value, posOpen) ==
    [type |-> "text", name |-> "", posOpen |-> posOpen, attrs |-> <<>>,
     value |-> value, children |-> <<>>]

\* traverse(node, callback): the nodes in the order the callback sees them
RECURSIVE traverse(_)
traverse(node) ==
    <<node>> \o Flatten([i \in 1..Len(node.children) |-> traverse(node.children[i])])

-----------------------------------------------------------------------------
(* extractComponents *)

NoPath == <<>>      \* a dependency whose modulePath was never assigned

\* a faulty variant: a built-in element is left without its synthetic path
BuiltInPathUnset(name) == NoPath

BuiltInPath(name) == <<"@@", name>>

DepsHas(deps, name) == \E i \in 1..Len(deps) : deps[i].name = name

\* a faulty variant: the markers are counted
UnmatchedBracketsCounted(value) ==
    Cardinality({i \in 1..Len(value) : value[i] = "{{"})
        # Cardinality({i \in 1..Len(value) : value[i] = "}}"})

UnmatchedBrackets(value) == Includes(value, "{{") # Includes(value, "}}")

\* the attribute loop of the traversal callback
RECURSIVE AttrLoop(_, _, _, _)
AttrLoop(lines, entry, attrs, errs) ==
    IF attrs = <<>> THEN errs
    ELSE LET attr == Head(attrs)
         IN  AttrLoop(lines, entry, Tail(attrs),
                 IF attr.isString /\ UnmatchedBrackets(attr.value)
                 THEN addError(errs, entry,
                         <<reprStr(lines, attr.position.end, <<"Unmatched brackets">>)>>,
                         "warning")
                 ELSE errs)

\* a faulty variant: every occurrence of an element is recorded
RecordsDepAlways(deps, node) == node.type = "element" /\ node.name # ""

\* whether the callback records a dependency for this node
RecordsDep(deps, node) ==
    node.type = "element" /\ node.name # "" /\ ~DepsHas(deps, node.name)

\* the traversal callback over the nodes not yet visited
RECURSIVE VisitLoop(_, _, _, _, _)
VisitLoop(lines, entry, nodes, deps, errs) ==
    IF nodes = <<>> THEN [deps |-> deps, errors |-> errs]
    ELSE LET node == Head(nodes)
             isElement == node.type = "element" /\ node.name # ""
             deps1 == IF RecordsDep(deps, node)
                      THEN Append(deps, [name |-> node.name, node |-> node,
                                         modulePath |-> NoPath])
                      ELSE deps
             errs1 == IF isElement THEN AttrLoop(lines, entry, node.attrs, errs)
                      ELSE errs
             errs2 == IF node.type = "text" /\ node.value # <<>>
                         /\ UnmatchedBrackets(node.value)
                      THEN addError(errs1, entry,
                              <<reprStr(lines,
                                        (IF node.posOpen.end = 0 THEN -1
                                         ELSE node.posOpen.end) + 1,
                                        <<"Unmatched brackets">>)>>,
                              "warning")
                      ELSE errs1
         IN  VisitLoop(lines, entry, Tail(nodes), deps1, errs2)

\* a faulty variant: the built-in vocabulary is not consulted
IsBuiltInNever(name) == FALSE

IsBuiltIn(name) == name \in builtIns

\* the loop over deps that assigns modulePath or reports the name
RECURSIVE ResolveLoop(_, _, _, _, _, _, _)
ResolveLoop(lines, entry, definitions, todo, done, unused, errs) ==
    IF todo = <<>> THEN [deps |-> done, unused |-> unused, errors |-> errs]
    ELSE LET dep == Head(todo)
         IN  IF IsBuiltIn(dep.name)
             THEN ResolveLoop(lines, entry, definitions, Tail(todo),
                     Append(done, [dep EXCEPT !.modulePath = BuiltInPath(dep.name)]),
                     unused, errs)
             ELSE IF DefsHas(definitions, dep.name)
             THEN ResolveLoop(lines, entry, definitions, Tail(todo),
                     Append(done, [dep EXCEPT !.modulePath = DefsGet(definitions, dep.name)]),
                     DefsDelete(unused, dep.name), errs)
             ELSE ResolveLoop(lines, entry, definitions, Tail(todo),
                     Append(done, dep), unused,
                     addError(errs, entry,
                         <<reprStr(lines, dep.node.posOpen.start + 1,
                                   <<"Undefined component: ", dep.name>>)>>,
                         "fatal"))

\* the loop that reports what is left in unused
RECURSIVE UnusedLoop(_, _, _)
UnusedLoop(entry, unused, errs) ==
    IF unused = <<>> THEN errs
    ELSE UnusedLoop(entry, Tail(unused),
            addError(errs, entry,
                     <<MessageOnly(<<"Unused definition: ", Head(unused)[1]>>)>>,
                     "warning"))

\* doc is what parseXml makes of the file's content.  The result says whether
\* the call threw, the dependency list returned, and the ledger afterwards.
extractComponents(doc, entry, definitions, errs) ==
    IF doc.throws
    THEN [threw |-> TRUE, error |-> doc.error, deps |-> <<>>, errors |-> errs]
    ELSE LET errs0 == IF Len(doc.warnings) > 0
                      THEN addError(errs, entry,
                              [i \in 1..Len(doc.warnings) |->
                                  reprStr(doc.lines, doc.warnings[i].offset,
                                          doc.warnings[i].message)],
                              "warning")
                      ELSE errs
             visited == VisitLoop(doc.lines, entry, traverse(doc.node), <<>>, errs0)
             resolved == ResolveLoop(doc.lines, entry, definitions, visited.deps,
                                     <<>>, definitions, visited.errors)
         IN  [threw |-> FALSE, error |-> <<>>, deps |-> resolved.deps,
              errors |-> UnusedLoop(entry, resolved.unused, resolved.errors)]

-----------------------------------------------------------------------------
(* The projects explored: three logical paths, two of them pages *)

PA == <<"pages", "a">>
PB == <<"pages", "b">>
PC == <<"node_modules", "c">>

Paths == {PA, PB, PC}

\* a component that no page and no alias leads to
PU == <<"pages", "unused">>

AllSiblings == Range(Siblings)

\* which of a path's four files exist
FileSets == {AllSiblings, AllSiblings \ {".acss"}, {}}

NoValue == <<>>

\* usingComponents with the keys "x" and "y", each present or not
Using(xv, yv) ==
    (IF xv = NoValue THEN <<>> ELSE << <<"x", xv>> >>)
    \o (IF yv = NoValue THEN <<>> ELSE << <<"y", yv>> >>)

UsingPool ==
    {Using(xv, yv) : xv \in {NoValue, <<"", "pages", "a">>, <<".", "b">>},
                     yv \in {NoValue, <<"c">>}}

\* <x/><view><x/></view>
DocNested ==
    [throws |-> FALSE, error |-> <<>>, warnings |-> <<>>, lines |-> <<21>>,
     node |-> Element("", Position(0, 0), <<>>,
                << Element("x", Position(0, 4), <<>>, <<>>),
                   Element("view", Position(4, 10), <<>>,
                       << Element("x", Position(10, 14), <<>>, <<>>) >>) >>)]

\* <view a="{{v" b><y/></view>
\* {{t<x/><z c="{{v}}"/>{{<y/>{{x}}<view/>{{x}}{{y</q>
DocMixed ==
    [throws |-> FALSE, error |-> <<>>,
     warnings |-> << [offset |-> 75, message |-> <<"Unexpected close tag">>] >>,
     lines |-> <<27, 51>>,
     node |-> Element("", Position(0, 0), <<>>,
                << Element("view", Position(0, 16),
                       << Attr(<<"{{", "v">>, 13), BareAttr(15) >>,
                       << Element("y", Position(16, 20), <<>>, <<>>) >>),
                   Text(<<"\n", "{{", "t">>, Position(27, 31)),
                   Element("x", Position(31, 35), <<>>, <<>>),
                   Element("z", Position(35, 49),
                       << Attr(<<"{{", "v", "}}">>, 47) >>, <<>>),
                   Text(<<"{{">>, Position(49, 51)),
                   Element("y", Position(51, 55), <<>>, <<>>),
                   Text(<<"{{", "x", "}}">>, Position(55, 60)),
                   Element("view", Position(60, 67), <<>>, <<>>),
                   Text(<<"{{", "x", "}}", "{{", "y">>, Position(67, 75)) >>)]

\* a file parseXml gives up on
DocThrows ==
    [throws |-> TRUE, error |-> MessageOnly(<<"Parse error">>), warnings |-> <<>>,
     lines |-> <<1>>, node |-> Element("", Position(0, 0), <<>>, <<>>)]

\* the content of a file that is not there, or is never read
NoDoc ==
    [throws |-> FALSE, error |-> <<>>, warnings |-> <<>>, lines |-> <<0>>,
     node |-> Element("", Position(0, 0), <<>>, <<>>)]

DocPool == {DocNested, DocMixed, DocThrows}

\* usingComponents with the one key "view", the name of a built-in element
UsingView == << <<"view", <<"", "pages", "a">> >> >>

UsingOf(p) == IF p = PC THEN {Using(NoValue, NoValue), Using(<<"", "pages", "a">>, NoValue),
                              UsingView}
              ELSE UsingPool

DocsOf(p) == IF p = PC THEN {DocNested} ELSE DocPool

PagesPool == {<<PA>>, <<PA, PB>>}

HighlightsPool == {{}, {PB}}

DiskOf(files, extra) ==
    {<<"app.json">>}
    \cup UNION {{FileName(p, e) : e \in files[p]} : p \in Paths}
    \cup UNION {{FileName(p, e) : e \in AllSiblings} : p \in extra}

\* no call of reprStr on its own
NoRepr == [input |-> <<>>, offset |-> 0, done |-> FALSE, ref |-> MessageOnly(<<>>)]

\* outside analyze() its locals do not exist
NoGraph == [nodes |-> <<>>, links |-> <<>>]

TypeOK ==
    /\ phase \in {"idle", "checkApp", "checkUnused", "report", "hierarchyPages",
                 "hierarchy", "overflow", "analyze"}
    /\ run \in 0..MaxRuns
    /\ Len(stack) <= MaxStack

Init ==
    /\ \E files \in [Paths -> FileSets], extra \in SUBSET {PU} :
        /\ files[PC] # {} => extra = {}
        /\ disk = DiskOf(files, extra)
        /\ manifests \in [Paths -> UNION {UsingOf(p) : p \in Paths}]
        /\ axml \in [Paths -> DocPool \cup {NoDoc}]
        /\ \A p \in Paths :
              IF files[p] = AllSiblings
              THEN manifests[p] \in UsingOf(p) /\ axml[p] \in DocsOf(p)
              ELSE manifests[p] = <<>> /\ axml[p] = NoDoc
    /\ appPages \in PagesPool
    /\ highlights \in HighlightsPool
    /\ components = <<>>
    /\ errors = NoErrors
    /\ pages = <<>>
    /\ phase = "idle"
    /\ run = 0
    /\ pageIdx = 0
    /\ stack = <<>>
    /\ hasError = FALSE
    /\ queue = <<>>
    /\ tree = <<>>
    /\ nProcessed = [p \in Paths |-> 0]
    /\ processedIn = [p \in Paths |-> 0]
    /\ lastRun = [run |-> 0, components |-> <<>>, errors |-> NoErrors]
    /\ graph = NoGraph
    /\ repr = NoRepr

-----------------------------------------------------------------------------
(* check(): the reset and checkApp *)

\* the state check() puts in this.errors on entry
FreshErrors == NoErrors

\* the state check() leaves in this.components on entry: the map is not touched
ComponentsAtCheck(comps) == comps

Check ==
    /\ phase = "idle"
    /\ run < MaxRuns
    /\ run' = run + 1
    /\ errors' = FreshErrors
    /\ components' = ComponentsAtCheck(components)
    /\ phase' = "checkApp"
    /\ pageIdx' = 0
    /\ lastRun' = [run |-> run, components |-> components, errors |-> errors]
    /\ UNCHANGED <<repr, graph, disk, manifests, axml, appPages, highlights, pages, stack,
                   hasError, queue, tree, nProcessed, processedIn>>

\* Set.prototype.add on a set kept in insertion order
SetAdd(set, x) == IF x \in Range(set) THEN set ELSE Append(set, x)

Frame(entry) == [entry |-> entry, pc |-> "enter", todo |-> <<>>]

\* checkApp: the next page of app.json is added to this.pages and checked
CheckAppPage ==
    /\ phase = "checkApp"
    /\ stack = <<>>
    /\ pageIdx < Len(appPages)
    /\ pageIdx' = pageIdx + 1
    /\ pages' = SetAdd(pages, appPages[pageIdx + 1])
    /\ stack' = <<Frame(appPages[pageIdx + 1])>>
    /\ UNCHANGED <<repr, graph, disk, manifests, axml, appPages, highlights, components, errors,
                   phase, run, hasError, queue, tree, nProcessed, processedIn,
                   lastRun>>

\* checkApp: the loop over the pages is over
CheckAppReturn ==
    /\ phase = "checkApp"
    /\ stack = <<>>
    /\ pageIdx = Len(appPages)
    /\ phase' = "checkUnused"
    /\ UNCHANGED <<repr, graph, disk, manifests, axml, appPages, highlights, components, errors,
                   pages, run, pageIdx, stack, hasError, queue, tree, nProcessed,
                   processedIn, lastRun>>

-----------------------------------------------------------------------------
(* checkComponent *)

\* a faulty variant: checkComponent without its early return
AlreadyCheckedNever(comps, entry) == FALSE

\* the test on the first line of checkComponent
AlreadyChecked(comps, entry) == entry \in DOMAIN comps

\* a faulty variant: the component is not in the map while its aliases are followed
ComponentsSetDropped(comps, entry, component) == comps

\* this.components.set(entry, component)
ComponentsSet(comps, entry, component) ==
    [k \in DOMAIN comps \cup {entry} |-> IF k = entry THEN component ELSE comps[k]]

\* addError's default for its type parameter
DefaultType == "warning"

\* what the catch around the four assertFile calls records
MissingFileRecorded(errs, entry, missing) ==
    addError(errs, entry,
             <<MessageOnly(<<"Expect file: ">> \o FileName(entry, Siblings[missing]))>>,
             DefaultType)

\* a faulty variant: no alias is followed
DefsValuesNone(defs) == <<>>

\* the values of the Definitions Map, in iteration order
DefsValues(defs) == [i \in 1..Len(defs) |-> defs[i][2]]

\* the component and the ledger after the else branch, before the loop
Resolved(files, using, doc, entry, errs) ==
    LET defs == extractDefinitions(files, using, entry, errs)
        found == extractComponents(doc, entry, defs.components, defs.errors)
    IN  [component |-> [entry |-> entry, deps |-> found.deps, hasDefs |-> TRUE,
                        defs |-> defs.components],
         errors |-> IF found.threw
                    THEN addError(found.errors, entry, <<found.error>>, "fatal")
                    ELSE found.errors]

Pop(stk) == Front(stk)

\* a faulty variant: the failed assertion is not caught and ends the callers
Uncaught(stk) == <<>>

\* the stack after the catch around the assertFile calls and the insertion
\* of the bare component: this call returns, its callers go on
Caught(stk) == Pop(stk)

\* checkComponent up to its loop: the early return, the sibling files, the
\* definitions, the markup, the insertion into this.components
CheckComponentBody ==
    /\ phase = "checkApp"
    /\ stack # <<>>
    /\ Last(stack).pc = "enter"
    /\ LET entry == Last(stack).entry
           missing == FirstMissing(disk, entry)
           res == Resolved(disk, manifests[entry], axml[entry], entry, errors)
       IN  IF AlreadyChecked(components, entry)
           THEN /\ stack' = Pop(stack)
                /\ UNCHANGED <<components, errors, nProcessed, processedIn>>
           ELSE /\ nProcessed' = [nProcessed EXCEPT ![entry] = @ + 1]
                /\ processedIn' = [processedIn EXCEPT ![entry] = run]
                /\ IF missing # 0
                   THEN /\ errors' = MissingFileRecorded(errors, entry, missing)
                        /\ components' = ComponentsSet(components, entry,
                                [entry |-> entry, deps |-> <<>>, hasDefs |-> FALSE,
                                 defs |-> <<>>])
                        /\ stack' = Caught(stack)
                   ELSE /\ errors' = res.errors
                        /\ components' = ComponentsSet(components, entry, res.component)
                        /\ stack' = Append(Pop(stack),
                                [entry |-> entry, pc |-> "loop",
                                 todo |-> DefsValues(res.component.defs)])
    /\ UNCHANGED <<repr, graph, disk, manifests, axml, appPages, highlights, pages, phase, run,
                   pageIdx, hasError, queue, tree, lastRun>>

\* a faulty variant: the loop calls checkComponent for nothing
RecursesNever(comps, modulePath) == FALSE

\* the test in the loop over defs.components
Recurses(comps, modulePath) == modulePath \notin DOMAIN comps

\* one iteration of the loop over defs.components
CheckComponentLoop ==
    /\ phase = "checkApp"
    /\ stack # <<>>
    /\ Last(stack).pc = "loop"
    /\ Last(stack).todo # <<>>
    /\ LET top == Last(stack)
           modulePath == Head(top.todo)
           rest == Append(Pop(stack), [top EXCEPT !.todo = Tail(top.todo)])
       IN  IF Recurses(components, modulePath)
           THEN IF Len(stack) >= MaxStack
                THEN phase' = "overflow" /\ stack' = stack
                ELSE phase' = phase /\ stack' = Append(rest, Frame(modulePath))
           ELSE phase' = phase /\ stack' = rest
    /\ UNCHANGED <<repr, graph, disk, manifests, axml, appPages, highlights, components, errors,
                   pages, run, pageIdx, hasError, queue, tree, nProcessed,
                   processedIn, lastRun>>

\* the loop over defs.components is over
CheckComponentReturn ==
    /\ phase = "checkApp"
    /\ stack # <<>>
    /\ Last(stack).pc = "loop"
    /\ Last(stack).todo = <<>>
    /\ stack' = Pop(stack)
    /\ UNCHANGED <<repr, graph, disk, manifests, axml, appPages, highlights, components, errors,
                   pages, phase, run, pageIdx, hasError, queue, tree, nProcessed,
                   processedIn, lastRun>>

-----------------------------------------------------------------------------
(* checkUnused *)

\* a faulty variant: the walk skips nothing
SkippedNever(name) == FALSE

\* walk's skip pattern /\/node_modules\//, on a file name
Skipped(name) == \E i \in 1..(Len(name) - 2) : name[i] = "node_modules"

\* the set unused that the walk builds
Extraneous(files, comps) ==
    {Front(name) : name \in {f \in files : /\ ~Skipped(f)
                                           /\ Last(f) = ".axml"
                                           /\ Front(f) \notin DOMAIN comps}}

DecimalDigits == <<"0", "1", "2", "3", "4", "5", "6", "7", "8", "9">>

\* the decimal digits of a number, as a template literal prints it
RECURSIVE Decimal(_)
Decimal(n) ==
    IF n < 10 THEN <<DecimalDigits[n + 1]>>
    ELSE Append(Decimal(n \div 10), DecimalDigits[(n % 10) + 1])

\* `${unused.size} extraneous components are found`
Title(unused) == Decimal(Cardinality(unused)) \o <<" extraneous components are found">>

\* the orders in which the walk can meet the members of a set
Orderings(S) ==
    {order \in [1..Cardinality(S) -> S] : \A i, j \in DOMAIN order :
                                              order[i] = order[j] => i = j}

RECURSIVE ReportUnused(_, _, _)
ReportUnused(title, order, errs) ==
    IF order = <<>> THEN errs
    ELSE ReportUnused(title, Tail(order),
                      addError(errs, title, <<MessageOnly(Head(order))>>, DefaultType))

CheckUnused ==
    /\ phase = "checkUnused"
    /\ LET unused == Extraneous(disk, components)
       IN  \E order \in Orderings(unused) :
              errors' = IF Cardinality(unused) > 0
                        THEN ReportUnused(Title(unused), order, errors)
                        ELSE errors
    /\ phase' = "report"
    /\ UNCHANGED <<repr, graph, disk, manifests, axml, appPages, highlights, components, pages,
                   run, pageIdx, stack, hasError, queue, tree, nProcessed,
                   processedIn, lastRun>>

-----------------------------------------------------------------------------
(* check(): the report *)

Report ==
    /\ phase = "report"
    /\ hasError' = (DOMAIN errors.warning # {} \/ DOMAIN errors.fatal # {})
    /\ phase' = "hierarchyPages"
    /\ UNCHANGED <<repr, graph, disk, manifests, axml, appPages, highlights, components, errors,
                   pages, run, pageIdx, stack, queue, tree, nProcessed, processedIn,
                   lastRun>>

-----------------------------------------------------------------------------
(* generateHierarchy *)

\* getEntryDesc with the strip pattern /\/index(?:\.mini)?$/
getEntryDesc(entry) ==
    LET stripped == IF Len(entry) > 1 /\ Last(entry) \in {"index", "index.mini"}
                    THEN Front(entry) ELSE entry
        external == Len(stripped) > 1 /\ Head(stripped) = "node_modules"
    IN  [name |-> IF external THEN Tail(stripped)
                  ELSE IF stripped = <<>> THEN <<>> ELSE <<Last(stripped)>>,
         external |-> external]

NoColor == "null"

RootNode == [v |-> <<>>, d |-> 0, pi |-> 0, f |-> FALSE, c |-> NoColor, parent |-> 0,
             entry |-> <<>>]

\* the color of a page node
PageColor(hl) == IF Cardinality(hl) > 0 THEN "#999" ELSE NoColor

\* the loop over this.pages: page nodes in tree, their items in queue
RECURSIVE PagesLoop(_, _, _, _, _, _)
PagesLoop(comps, hl, todo, i, nodes, items) ==
    IF todo = <<>> THEN [tree |-> nodes, queue |-> items]
    ELSE IF Head(todo) \notin DOMAIN comps
         THEN PagesLoop(comps, hl, Tail(todo), i, nodes, items)
         ELSE PagesLoop(comps, hl, Tail(todo), i + 1,
                 Append(nodes, [v |-> getEntryDesc(comps[Head(todo)].entry).name,
                                d |-> 1, pi |-> i + 1, f |-> FALSE,
                                c |-> PageColor(hl), parent |-> 1,
                                entry |-> Head(todo)]),
                 Append(items, [component |-> Head(todo), node |-> Len(nodes) + 1]))

GenerateHierarchyPages ==
    /\ phase = "hierarchyPages"
    /\ LET built == PagesLoop(components, highlights, pages, 0, <<RootNode>>, <<>>)
       IN  tree' = built.tree /\ queue' = built.queue
    /\ phase' = "hierarchy"
    /\ UNCHANGED <<repr, graph, disk, manifests, axml, appPages, highlights, components, errors,
                   pages, run, pageIdx, stack, hasError, nProcessed, processedIn,
                   lastRun>>

\* cache.has(modulePath): nothing is ever put in cache
CacheHas(modulePath) == FALSE

\* the color of a child node
ChildColor(hl, child, parentColor) == IF child \in hl THEN NoColor ELSE parentColor

\* component.deps.forEach(...) for the item taken from the queue
RECURSIVE DepsLoop(_, _, _, _, _, _)
DepsLoop(comps, hl, deps, at, nodes, items) ==
    IF deps = <<>> THEN [tree |-> nodes, queue |-> items]
    ELSE LET modulePath == Head(deps).modulePath
         IN  IF ~CacheHas(modulePath) /\ modulePath \in DOMAIN comps
             THEN DepsLoop(comps, hl, Tail(deps), at,
                     Append(nodes,
                         [v |-> getEntryDesc(comps[modulePath].entry).name,
                          d |-> nodes[at].d + 1, pi |-> nodes[at].pi,
                          f |-> getEntryDesc(comps[modulePath].entry).external,
                          c |-> ChildColor(hl, comps[modulePath].entry, nodes[at].c),
                          parent |-> at, entry |-> modulePath]),
                     Append(items, [component |-> modulePath, node |-> Len(nodes) + 1]))
             ELSE DepsLoop(comps, hl, Tail(deps), at, nodes, items)

\* one iteration of while (queue.length)
GenerateHierarchyStep ==
    /\ phase = "hierarchy"
    /\ queue # <<>>
    /\ LET item == Head(queue)
           built == DepsLoop(components, highlights, components[item.component].deps,
                             item.node, tree, Tail(queue))
       IN  IF Len(built.tree) > MaxTreeNodes
           THEN phase' = "overflow" /\ UNCHANGED <<tree, queue>>
           ELSE phase' = phase /\ tree' = built.tree /\ queue' = built.queue
    /\ UNCHANGED <<repr, graph, disk, manifests, axml, appPages, highlights, components, errors,
                   pages, run, pageIdx, stack, hasError, nProcessed, processedIn,
                   lastRun>>

\* the queue is empty: render, and check() returns
GenerateHierarchyRender ==
    /\ phase = "hierarchy"
    /\ queue = <<>>
    /\ phase' = "idle"
    /\ UNCHANGED <<repr, graph, disk, manifests, axml, appPages, highlights, components, errors,
                   pages, run, pageIdx, stack, hasError, queue, tree, nProcessed,
                   processedIn, lastRun>>

-----------------------------------------------------------------------------
(* analyze *)

\* the name of a graph node: the last segment, or the one before "index"
NodeName(entry) ==
    IF entry = <<>> THEN ""
    ELSE IF Last(entry) = "index"
         THEN (IF Len(entry) > 1 THEN entry[Len(entry) - 1] ELSE "")
    ELSE Last(entry)

\* the test that lets a dependency make a link: if (dep.modulePath)
Linked(dep) == dep.modulePath # NoPath

\* links, as the number of times each [source, target] pair is pushed
Links(comps) ==
    LET refs == UNION {{<<e, i>> : i \in {j \in 1..Len(comps[e].deps) :
                                               Linked(comps[e].deps[j])}} :
                          e \in DOMAIN comps}
        pairOf(r) == <<comps[r[1]].entry, comps[r[1]].deps[r[2]].modulePath>>
    IN  [pair \in {pairOf(r) : r \in refs} |->
            Cardinality({r \in refs : pairOf(r) = pair})]

RECURSIVE SumOver(_, _)
SumOver(f, S) ==
    IF S = {} THEN 0
    ELSE LET x == CHOOSE y \in S : TRUE
         IN  f[x] + SumOver(f, S \ {x})

\* the loop over links: each end of a link that is a node gains one
Weight(links, entry) ==
    SumOver([pair \in DOMAIN links |->
                links[pair] * ((IF pair[1] = entry THEN 1 ELSE 0)
                               + (IF pair[2] = entry THEN 1 ELSE 0))],
            DOMAIN links)

\* nodeMap and links as analyze hands them to render
analyze(comps) ==
    LET links == Links(comps)
    IN  [nodes |-> [e \in {comps[k].entry : k \in DOMAIN comps} |->
                      [name |-> NodeName(e), entry |-> e, weight |-> Weight(links, e)]],
         links |-> links]

\* analyze(), called on a scanner at rest, up to its call of render
Analyze ==
    /\ phase = "idle"
    /\ graph' = analyze(components)
    /\ phase' = "analyze"
    /\ UNCHANGED <<repr, disk, manifests, axml, appPages, highlights, components, errors,
                   pages, run, pageIdx, stack, hasError, queue, tree, nProcessed,
                   processedIn, lastRun>>

\* the graph is rendered and analyze() returns
AnalyzeRender ==
    /\ phase = "analyze"
    /\ graph' = NoGraph
    /\ phase' = "idle"
    /\ UNCHANGED <<repr, disk, manifests, axml, appPages, highlights, components, errors,
                   pages, run, pageIdx, stack, hasError, queue, tree, nProcessed,
                   processedIn, lastRun>>

Next ==
    \/ Analyze
    \/ AnalyzeRender
    \/ Check
    \/ CheckAppPage
    \/ CheckAppReturn
    \/ CheckComponentBody
    \/ CheckComponentLoop
    \/ CheckComponentReturn
    \/ CheckUnused
    \/ Report
    \/ GenerateHierarchyPages
    \/ GenerateHierarchyStep
    \/ GenerateHierarchyRender

Spec == Init /\ [][Next]_vars

-----------------------------------------------------------------------------
(* reprStr on its own: a text, an offset, one call *)

Chars == {"a", "\n"}

\* the texts of up to MaxInput characters
Inputs == UNION {[1..n -> Chars] : n \in 0..MaxInput}

ReprInit ==
    /\ \E input \in Inputs : \E offset \in 0..(Len(input) + 2) :
          repr = [input |-> input, offset |-> offset, done |-> FALSE,
                  ref |-> MessageOnly(<<>>)]
    /\ disk = {<<"app.json">>}
    /\ manifests = [p \in Paths |-> <<>>]
    /\ axml = [p \in Paths |-> NoDoc]
    /\ appPages = <<PA>>
    /\ highlights = {}
    /\ components = <<>>
    /\ errors = NoErrors
    /\ pages = <<>>
    /\ phase = "idle"
    /\ run = 0
    /\ pageIdx = 0
    /\ stack = <<>>
    /\ hasError = FALSE
    /\ queue = <<>>
    /\ tree = <<>>
    /\ nProcessed = [p \in Paths |-> 0]
    /\ processedIn = [p \in Paths |-> 0]
    /\ lastRun = [run |-> 0, components |-> <<>>, errors |-> NoErrors]
    /\ graph = NoGraph

\* reprStr({ input, offset, message })
ReprStr ==
    /\ ~repr.done
    /\ repr' = [repr EXCEPT !.done = TRUE,
                            !.ref = reprStr(SplitLines(repr.input, 0), repr.offset,
                                            <<"message">>)]
    /\ UNCHANGED <<graph, disk, manifests, axml, appPages, highlights, components,
                   errors, pages, phase, run, pageIdx, stack, hasError, queue, tree,
                   nProcessed, processedIn, lastRun>>

ReprNext == ReprStr

ReprSpec == ReprInit /\ [][ReprNext]_vars

-----------------------------------------------------------------------------
(* Vocabulary of the properties *)

\* the resolver has returned in the current run
ResolverDone == run > 0 /\ phase \notin {"checkApp", "overflow"}

\* p declares a valid alias for q
Declares(p, q) ==
    /\ p \in DOMAIN components
    /\ \E i \in 1..Len(components[p].defs) : components[p].defs[i][2] = q

\* the aliases by which p reaches q
AliasesTo(p, q) ==
    {components[p].defs[i][1] : i \in {j \in 1..Len(components[p].defs) :
                                          components[p].defs[j][2] = q}}

\* number of records with this message under a key of a bucket
CountMessage(errs, type, key, message) ==
    LET list == ErrorsOf(errs, type, key)
    IN  Cardinality({i \in 1..Len(list) : list[i].message = message})

\* two ways from a page to one component
Diamond ==
    \E p, q, r \in DOMAIN components :
        /\ p # q /\ q # r /\ p # r
        /\ Declares(p, q) /\ Declares(p, r) /\ Declares(q, r)

-----------------------------------------------------------------------------
\* the weight of one active checkComponent call: what it can still do
\* before it returns, not counting the calls it starts
FrameWeight(f) == IF f.pc = "enter" THEN 1 ELSE 1 + 2 * Len(f.todo)

RECURSIVE StackWeight(_)
StackWeight(stk) ==
    IF stk = <<>> THEN 0 ELSE FrameWeight(Head(stk)) + StackWeight(Tail(stk))

\* the longest alias table of the project
MaxAliases ==
    LET lens == {Len(manifests[p]) : p \in Paths}
    IN  CHOOSE n \in lens : \A m \in lens : m <= n

\* a natural number that bounds the steps the resolver has left: the paths
\* not yet in the map, the pages not yet taken, the work of the active calls
ResolverMeasure ==
    (2 * MaxAliases + 1) * Cardinality(Paths \ DOMAIN components)
    + 2 * (Len(appPages) - pageIdx)
    + StackWeight(stack)

\* C1: on every project the traversal that checkApp() starts (checkComponent
\* for each page, and recursively for each valid alias) comes to an end: each
\* of its steps either returns from checkApp or stays in it and lowers a
\* natural number, so no run of the traversal is infinite, and it never runs
\* out of stack.
C1_ResolverTerminates ==
    [][phase = "checkApp" =>
          \/ phase' = "checkUnused"
          \/ phase' = "checkApp" /\ ResolverMeasure' < ResolverMeasure]_vars

\* the resolver has returned on a project whose alias graph has a self
\* reference, a two-cycle and a diamond reached from the pages
C1_Witness ==
    /\ phase = "checkUnused"
    /\ run = 1
    /\ \E p \in DOMAIN components : Declares(p, p)
    /\ \E p, q \in DOMAIN components : p # q /\ Declares(p, q) /\ Declares(q, p)
    /\ Diamond

\* C2: no logical path is processed more than once, however many pages or
\* aliases lead to it; every path in the map was processed (and so inserted)
\* exactly once; and when A and B declare each other, then once the resolver
\* has returned both are in the map, each processed once, with no
\* "Undefined component" record for the aliases that tie them.
C2_ProcessedOnce ==
    /\ \A p \in Paths : nProcessed[p] <= 1
    /\ \A p \in Paths : p \in DOMAIN components <=> nProcessed[p] = 1
    /\ \A p, q \in Paths :
          (p # q /\ Declares(p, q) /\ Declares(q, p)) =>
              /\ ResolverDone => nProcessed[p] = 1 /\ nProcessed[q] = 1
              /\ \A n \in AliasesTo(p, q) :
                    CountMessage(errors, "fatal", p, <<"Undefined component: ", n>>) = 0

\* A and B declare each other and use each other in their markup, the second
\* is also a page, and the resolver has returned
C2_Witness ==
    /\ ResolverDone
    /\ run = 1
    /\ appPages = <<PA, PB>>
    /\ Declares(PA, PB) /\ Declares(PB, PA)
    /\ \E i \in 1..Len(components[PA].deps) : components[PA].deps[i].modulePath = PB
    /\ \E i \in 1..Len(components[PB].deps) : components[PB].deps[i].modulePath = PA

\* C3: check() runs to completion on every project, cycles and diamonds
\* included.  The projection's loop ends only if it never makes a node deeper
\* than the map has components: a deeper node has one component twice on its
\* path from its page, and the loop then follows that cycle for ever.  So in
\* a run that completes no node is that deep and the loop never gives up.
C3_CheckCompletes ==
    /\ phase # "overflow"
    /\ phase \in {"hierarchy", "idle"} =>
          \A i \in 1..Len(tree) : tree[i].d <= Cardinality(DOMAIN components)

\* records compared without their order
SameRecords(s, t) ==
    /\ Len(s) = Len(t)
    /\ \A r \in Range(s) \cup Range(t) :
          Cardinality({i \in 1..Len(s) : s[i] = r})
              = Cardinality({i \in 1..Len(t) : t[i] = r})

SameBucket(b1, b2) ==
    /\ DOMAIN b1 = DOMAIN b2
    /\ \A k \in DOMAIN b1 : SameRecords(b1[k], b2[k])

SameLedger(e1, e2) ==
    SameBucket(e1.fatal, e2.fatal) /\ SameBucket(e1.warning, e2.warning)

\* C4: when a second check() on the same scanner has completed, the map is
\* the one the first check() left and the ledger holds the same records
\* under the same keys and severities.
C4_Idempotent ==
    (phase = "idle" /\ run >= 2) =>
        /\ components = lastRun.components
        /\ SameLedger(errors, lastRun.errors)

\* C5: when check() has done its reset and has not yet taken a page, the map
\* and both buckets of the ledger are empty.
C5_FreshAtCheck ==
    (phase = "checkApp" /\ pageIdx = 0 /\ stack = <<>>) =>
        /\ DOMAIN components = {}
        /\ DOMAIN errors.fatal = {}
        /\ DOMAIN errors.warning = {}

\* p was processed by checkComponent in the current check()
ProcessedNow(p) == run > 0 /\ processedIn[p] = run

\* the four sibling files of p exist
Complete(p) == \A e \in AllSiblings : FileName(p, e) \in disk

\* the element nodes of p's markup, in document order
ElementNodes(p) ==
    SelectSeq(traverse(axml[p].node), LAMBDA n : n.type = "element" /\ n.name # "")

ElementNames(p) ==
    LET nodes == ElementNodes(p)
    IN  {nodes[i].name : i \in 1..Len(nodes)}

Occurrences(p, name) ==
    LET nodes == ElementNodes(p)
    IN  Cardinality({i \in 1..Len(nodes) : nodes[i].name = name})

\* the keys of the Definitions Map stored with p
DefKeys(p) == {components[p].defs[i][1] : i \in 1..Len(components[p].defs)}

DefTargets(p, key) ==
    {components[p].defs[i][2] : i \in {j \in 1..Len(components[p].defs) :
                                          components[p].defs[j][1] = key}}

UndefinedRecords(p, name) ==
    CountMessage(errors, "fatal", p, <<"Undefined component: ", name>>)
    + CountMessage(errors, "warning", p, <<"Undefined component: ", name>>)

\* the names with an "Undefined component" record under p, in either bucket
ReportedUndefined(p) ==
    {r.message[2] : r \in {q \in Range(ErrorsOf(errors, "fatal", p))
                                 \cup Range(ErrorsOf(errors, "warning", p)) :
                              q.message[1] = "Undefined component: "}}

\* C6: when checkComponent processes a path with a sibling file missing, it
\* records exactly one error, of severity fatal, "Expect file: <name>" for a
\* missing file, under the path's key, and inserts the path with an empty
\* dependency list and no Definitions Map (nothing was parsed, nothing else
\* is recorded under the key).
C6_MissingFileFatal ==
    \A p \in Paths :
        (ProcessedNow(p) /\ ~Complete(p)) =>
            /\ p \in DOMAIN components
            /\ components[p].deps = <<>>
            /\ ~components[p].hasDefs
            /\ Len(ErrorsOf(errors, "fatal", p)) = 1
            /\ \E e \in AllSiblings :
                  /\ FileName(p, e) \notin disk
                  /\ ErrorsOf(errors, "fatal", p)[1].message
                        = <<"Expect file: ">> \o FileName(p, e)
            /\ ErrorsOf(errors, "warning", p) = <<>>

\* C7: for a component processed in this check() whose four files exist and
\* whose markup parses, each distinct element name that is neither built-in
\* nor a key of its Definitions Map has exactly one "Undefined component"
\* record, a fatal one, under the component's key, and no other name has one.
C7_UndefinedOncePerName ==
    \A p \in Paths :
        (ProcessedNow(p) /\ Complete(p) /\ ~axml[p].throws) =>
            LET names == ElementNames(p)
                keys == DefKeys(p)
                reported == ReportedUndefined(p)
            IN  /\ \A n \in names :
                      CountMessage(errors, "fatal", p, <<"Undefined component: ", n>>)
                          = IF n \notin builtIns /\ n \notin keys THEN 1 ELSE 0
                /\ reported \subseteq names
                /\ \A n \in reported :
                      CountMessage(errors, "warning", p,
                                   <<"Undefined component: ", n>>) = 0

\* a component whose markup has an undefined name twice, next to a built-in
\* element, with the one record
C7_Witness ==
    \E p \in Paths :
        /\ ProcessedNow(p) /\ Complete(p) /\ ~axml[p].throws
        /\ \E n \in ElementNames(p) :
              /\ n \notin builtIns /\ n \notin DefKeys(p)
              /\ Occurrences(p, n) = 2
              /\ UndefinedRecords(p, n) = 1
        /\ ElementNames(p) \cap builtIns # {}

\* C8: for a component processed in this check() whose four files exist, an
\* alias whose target has no manifest file has exactly one fatal "Component
\* not found" record under the component's key and is not in its Definitions
\* Map, so that an element of that name (not a built-in) is reported as
\* undefined; an alias whose target has one is in the map with the resolved
\* path, with no such record and no "Undefined component" record.
C8_InvalidAliasDropped ==
    \A p \in Paths :
        (ProcessedNow(p) /\ Complete(p)) =>
            \A i \in 1..Len(manifests[p]) :
                LET key == manifests[p][i][1]
                    target == ModulePath(p, manifests[p][i][2])
                    notFound == CountMessage(errors, "fatal", p,
                                             <<"Component not found: ", key>>)
                IN  IF FileName(target, ".json") \in disk
                    THEN /\ DefTargets(p, key) = {target}
                         /\ notFound = 0
                         /\ UndefinedRecords(p, key) = 0
                    ELSE /\ key \notin DefKeys(p)
                         /\ notFound = 1
                         /\ CountMessage(errors, "warning", p,
                                         <<"Component not found: ", key>>) = 0
                         /\ (~axml[p].throws /\ key \in ElementNames(p)
                                /\ key \notin builtIns) =>
                               CountMessage(errors, "fatal", p,
                                            <<"Undefined component: ", key>>) = 1

\* a component with one alias whose target has a manifest and one whose
\* target has none, both used in its markup
C8_Witness ==
    \E p \in Paths :
        /\ ProcessedNow(p) /\ Complete(p) /\ ~axml[p].throws
        /\ Len(manifests[p]) = 2
        /\ Cardinality(DefKeys(p)) = 1
        /\ \A i \in 1..2 : manifests[p][i][1] \in ElementNames(p)
        /\ \E i \in 1..2 : UndefinedRecords(p, manifests[p][i][1]) = 1

\* C9: in every component of the map the dependency list has at most one
\* entry per element name, and the entry's node is the first element of that
\* name in document (pre-order) order.
C9_OneDepPerName ==
    \A p \in DOMAIN components :
        LET deps == components[p].deps
            nodes == ElementNodes(p)
        IN  /\ \A i, j \in 1..Len(deps) : deps[i].name = deps[j].name => i = j
            /\ \A i \in 1..Len(deps) :
                  \E k \in 1..Len(nodes) :
                      /\ nodes[k] = deps[i].node
                      /\ nodes[k].name = deps[i].name
                      /\ \A m \in 1..(k - 1) : nodes[m].name # deps[i].name

\* a component whose markup has a name twice, first nested and then at the
\* top level, with one entry for it
C9_Witness ==
    \E p \in DOMAIN components :
        \E i \in 1..Len(components[p].deps) :
            /\ Occurrences(p, components[p].deps[i].name) = 2
            /\ components[p].deps[i].name = "y"
            /\ components[p].deps[i].node.posOpen.start = 16

\* C10 as stated: every entry of every dependency list carries a resolved
\* path, and no entry exists for a name reported as undefined.
C10_EveryDepResolved ==
    \A p \in DOMAIN components :
        \A i \in 1..Len(components[p].deps) :
            /\ components[p].deps[i].modulePath # NoPath
            /\ components[p].deps[i].name \notin ReportedUndefined(p)

\* C10 as amended: an entry for a built-in name carries the synthetic path,
\* an entry for a key of the Definitions Map carries the path the map gives,
\* and every other entry carries no path; the entries without a path are the
\* names that got the fatal "Undefined component" record when the component
\* was processed.
C10_DepResolvedOrReported ==
    \A p \in DOMAIN components :
        /\ \A i \in 1..Len(components[p].deps) :
              LET dep == components[p].deps[i]
              IN  /\ dep.name \in builtIns => dep.modulePath = <<"@@", dep.name>>
                  /\ (dep.name \notin builtIns /\ dep.name \in DefKeys(p)) =>
                        DefTargets(p, dep.name) = {dep.modulePath}
                  /\ (dep.name \notin builtIns /\ dep.name \notin DefKeys(p)) =>
                        dep.modulePath = NoPath
                  /\ ProcessedNow(p) =>
                        CountMessage(errors, "fatal", p,
                                     <<"Undefined component: ", dep.name>>)
                            = IF dep.modulePath = NoPath THEN 1 ELSE 0
        /\ ProcessedNow(p) =>
              ReportedUndefined(p)
                  = {components[p].deps[i].name :
                        i \in {j \in 1..Len(components[p].deps) :
                                  components[p].deps[j].modulePath = NoPath}}

\* a dependency list with a built-in entry, an entry resolved through the
\* Definitions Map and an entry without a path
C10_Witness ==
    \E p \in DOMAIN components :
        /\ ProcessedNow(p)
        /\ \E i, j, k \in 1..Len(components[p].deps) :
              /\ components[p].deps[i].modulePath = <<"@@", "view">>
              /\ components[p].deps[j].modulePath \in Paths
              /\ components[p].deps[k].modulePath = NoPath
              /\ components[p].deps[k].name \in ReportedUndefined(p)

\* number of "Unused definition" records for a name under p, per bucket
UnusedRecords(p, type, name) ==
    CountMessage(errors, type, p, <<"Unused definition: ", name>>)

\* the names with an "Unused definition" record under p, in either bucket
ReportedUnused(p) ==
    {r.message[2] : r \in {q \in Range(ErrorsOf(errors, "fatal", p))
                                 \cup Range(ErrorsOf(errors, "warning", p)) :
                              q.message[1] = "Unused definition: "}}

\* C11 as stated: for a component processed in this check() whose four files
\* exist (and whose markup was parsed), an alias of its Definitions Map has
\* an "Unused definition" warning under the component's key exactly when no
\* element of its markup has the alias's name; an alias that some element
\* names, a built-in name included, has none.
C11_UnusedIffUnreferenced ==
    \A p \in Paths :
        (ProcessedNow(p) /\ Complete(p) /\ ~axml[p].throws) =>
            LET names == ElementNames(p)
            IN  \A key \in DefKeys(p) :
                    UnusedRecords(p, "warning", key)
                        = IF key \in names THEN 0 ELSE 1

\* C11 as amended: for a component processed in this check() whose four
\* files exist and whose markup parses, an alias of its Definitions Map has
\* exactly one "Unused definition" warning under the component's key when its
\* name is a built-in element name or no element of the markup has its name,
\* and none otherwise; no other name has one, none is fatal, and a component
\* whose markup does not parse has none at all.
C11_UnusedUnlessResolved ==
    \A p \in Paths :
        (ProcessedNow(p) /\ Complete(p)) =>
            /\ ~axml[p].throws =>
                  LET names == ElementNames(p)
                  IN  /\ \A key \in DefKeys(p) :
                            UnusedRecords(p, "warning", key)
                                = IF key \in builtIns \/ key \notin names
                                  THEN 1 ELSE 0
                      /\ ReportedUnused(p) \subseteq DefKeys(p)
            /\ axml[p].throws => ReportedUnused(p) = {}
            /\ \A key \in ReportedUnused(p) : UnusedRecords(p, "fatal", key) = 0

\* one component with an alias named like a built-in element that its markup
\* uses, reported; another with an alias it uses, not reported, and an alias
\* it does not use, reported
C11_Witness ==
    /\ \E p \in Paths :
          /\ ProcessedNow(p) /\ Complete(p) /\ ~axml[p].throws
          /\ \E key \in DefKeys(p) \cap builtIns :
                key \in ElementNames(p) /\ UnusedRecords(p, "warning", key) = 1
    /\ \E p \in Paths :
          /\ ProcessedNow(p) /\ Complete(p) /\ ~axml[p].throws
          /\ \E key \in DefKeys(p) :
                key \in ElementNames(p) /\ UnusedRecords(p, "warning", key) = 0
          /\ \E key \in DefKeys(p) :
                key \notin ElementNames(p) /\ UnusedRecords(p, "warning", key) = 1

\* checkUnused() has returned in the current check()
CheckUnusedDone ==
    \/ phase \in {"report", "hierarchyPages", "hierarchy"}
    \/ phase = "idle" /\ run > 0

\* the logical paths with a markup file outside node_modules that are not in
\* the component map
Orphans ==
    {p \in {Front(f) : f \in {g \in disk : Last(g) = ".axml"}} :
        Head(p) # "node_modules" /\ p \notin DOMAIN components}

OrphanSuffix == " extraneous components are found"

\* the keys of a bucket that read "N extraneous components are found"
OrphanKeys(type) == {k \in DOMAIN errors[type] : Last(k) = OrphanSuffix}

Numerals == <<"1", "2", "3", "4">>

\* C12: once checkUnused() has returned, every logical path with a markup
\* file outside node_modules that is not in the component map has exactly
\* one record, a warning, all of them under the one key "N extraneous
\* components are found" with N the number of such paths; that key holds
\* nothing else (so no path of the map is reported), and without such a path
\* there is no such key.
C12_OrphansUnderOneKey ==
    CheckUnusedDone =>
        /\ OrphanKeys("fatal") = {}
        /\ IF Orphans = {}
           THEN OrphanKeys("warning") = {}
           ELSE LET title == <<Numerals[Cardinality(Orphans)], OrphanSuffix>>
                IN  /\ OrphanKeys("warning") = {title}
                    /\ Len(errors.warning[title]) = Cardinality(Orphans)
                    /\ \A p \in Orphans :
                          CountMessage(errors, "warning", title, p) = 1

\* two orphans on disk next to a markup file under node_modules that is not
\* in the map either, reported under the key for two
C12_Witness ==
    /\ CheckUnusedDone
    /\ Cardinality(Orphans) = 2
    /\ OrphanKeys("warning") = {<<"2", OrphanSuffix>>}
    /\ PA \in DOMAIN components

-----------------------------------------------------------------------------
\* the offset at which a line starts: the lengths of the lines before it,
\* each with its newline
RECURSIVE LineStart(_, _)
LineStart(lines, k) ==
    IF k <= 1 THEN 0 ELSE LineStart(lines, k - 1) + lines[k - 1] + 1

\* the 1-based line and column of an offset within the text
LineCol(lines, offset) ==
    LET line == CHOOSE k \in 1..Len(lines) :
                    /\ LineStart(lines, k) <= offset
                    /\ offset <= LineStart(lines, k) + lines[k]
    IN  <<line, offset - LineStart(lines, line) + 1>>

\* "Unmatched brackets" records under p for the string that ends at offset
BracketRecordsAt(p, type, offset) ==
    LET at == LineCol(axml[p].lines, offset)
        list == ErrorsOf(errors, type, p)
    IN  Cardinality({i \in 1..Len(list) :
                        /\ list[i].message = <<"Unmatched brackets">>
                        /\ list[i].line = at[1]
                        /\ list[i].col = at[2]})

\* exactly one of the two markers occurs in the string
OneMarker(value) == ("{{" \in Range(value)) # ("}}" \in Range(value))

\* the non-empty text nodes of p's markup
TextNodes(p) ==
    SelectSeq(traverse(axml[p].node), LAMBDA n : n.type = "text" /\ n.value # <<>>)

\* the strings the delimiter check looks at, each with the offset it reports:
\* the string attribute values, and the text values
CheckedStrings(p) ==
    LET nodes == traverse(axml[p].node)
    IN  UNION {
            IF nodes[i].type = "element" /\ nodes[i].name # ""
            THEN {[value |-> nodes[i].attrs[j].value,
                   offset |-> nodes[i].attrs[j].position.end] :
                     j \in {k \in 1..Len(nodes[i].attrs) : nodes[i].attrs[k].isString}}
            ELSE IF nodes[i].type = "text" /\ nodes[i].value # <<>>
            THEN {[value |-> nodes[i].value, offset |-> nodes[i].posOpen.end + 1]}
            ELSE {} : i \in 1..Len(nodes)}

Parsed(p) == ProcessedNow(p) /\ Complete(p) /\ ~axml[p].throws

\* C13 as stated: in the markup of a component processed in this check(), a
\* text node with "{{" and no "}}" has exactly one "Unmatched brackets"
\* warning, the text "{{x}}" has none, and the text "{{x}}{{y" has exactly
\* one.
C13_BoundaryAsStated ==
    \A p \in Paths :
        Parsed(p) =>
            LET texts == TextNodes(p)
            IN  \A i \in 1..Len(texts) :
                    LET node == texts[i]
                        n == BracketRecordsAt(p, "warning", node.posOpen.end + 1)
                    IN  /\ ("{{" \in Range(node.value) /\ "}}" \notin Range(node.value))
                              => n = 1
                        /\ node.value = <<"{{", "x", "}}">> => n = 0
                        /\ node.value = <<"{{", "x", "}}", "{{", "y">> => n = 1

\* C13 as amended: a text node with "{{" and no "}}" has exactly one
\* "Unmatched brackets" warning, the text "{{x}}" has none, and the text
\* "{{x}}{{y", in which both markers occur, has none either.
C13_BoundaryByPresence ==
    \A p \in Paths :
        Parsed(p) =>
            LET texts == TextNodes(p)
            IN  \A i \in 1..Len(texts) :
                    LET node == texts[i]
                        n == BracketRecordsAt(p, "warning", node.posOpen.end + 1)
                    IN  /\ ("{{" \in Range(node.value) /\ "}}" \notin Range(node.value))
                              => n = 1
                        /\ node.value = <<"{{", "x", "}}">> => n = 0
                        /\ node.value = <<"{{", "x", "}}", "{{", "y">> => n = 0

\* a processed component whose markup has the three texts, with one record
\* for the first and none for the other two
C13_Witness ==
    \E p \in Paths :
        /\ Parsed(p)
        /\ \E i, j, k \in 1..Len(TextNodes(p)) :
              /\ TextNodes(p)[i].value = <<"{{">>
              /\ BracketRecordsAt(p, "warning", TextNodes(p)[i].posOpen.end + 1) = 1
              /\ TextNodes(p)[j].value = <<"{{", "x", "}}">>
              /\ BracketRecordsAt(p, "warning", TextNodes(p)[j].posOpen.end + 1) = 0
              /\ TextNodes(p)[k].value = <<"{{", "x", "}}", "{{", "y">>
              /\ BracketRecordsAt(p, "warning", TextNodes(p)[k].posOpen.end + 1) = 0

\* all "Unmatched brackets" records under p in a bucket
BracketRecords(p, type) == CountMessage(errors, type, p, <<"Unmatched brackets">>)

\* C16: for a component processed in this check() whose markup parses,
\* every string attribute value and every non-empty text value has exactly
\* one "Unmatched brackets" record under the component's key, a warning at
\* the string's offset, when exactly one of "{{" and "}}" occurs in it, and
\* none when both or neither occur; there are no other such records.
C16_OneRecordPerLoneMarker ==
    \A p \in Paths :
        Parsed(p) =>
            LET strings == CheckedStrings(p)
            IN  /\ \A str \in strings :
                      /\ BracketRecordsAt(p, "warning", str.offset)
                            = IF OneMarker(str.value) THEN 1 ELSE 0
                      /\ BracketRecordsAt(p, "fatal", str.offset) = 0
                /\ BracketRecords(p, "warning")
                      = Cardinality({str \in strings : OneMarker(str.value)})
                /\ BracketRecords(p, "fatal") = 0

\* a processed component whose markup has an attribute with one marker, an
\* attribute with both, an attribute without a value, a text with one
\* marker twice over and a text with both: three records
C16_Witness ==
    \E p \in Paths :
        /\ Parsed(p)
        /\ BracketRecords(p, "warning") = 3
        /\ \E a, b \in CheckedStrings(p) :
              /\ a.value = <<"{{", "v">> /\ BracketRecordsAt(p, "warning", a.offset) = 1
              /\ b.value = <<"{{", "v", "}}">>
              /\ BracketRecordsAt(p, "warning", b.offset) = 0
        /\ Cardinality(CheckedStrings(p)) = 6

-----------------------------------------------------------------------------
\* what processing p alone, with an empty ledger, stores and records
Alone(p) ==
    IF Complete(p)
    THEN Resolved(disk, manifests[p], axml[p], p, NoErrors)
    ELSE [component |-> [entry |-> p, deps |-> <<>>, hasDefs |-> FALSE, defs |-> <<>>],
          errors |-> MissingFileRecorded(NoErrors, p, FirstMissing(disk, p))]

\* p has a defect of its own: some record under its key
Defective(p) ==
    ErrorsOf(errors, "fatal", p) # <<>> \/ ErrorsOf(errors, "warning", p) # <<>>

\* C14: when checkApp() has returned, every page of app.json is in the
\* component map, and so is every valid alias target of every component in
\* the map, whatever defects were recorded on the way; and what is stored and
\* recorded for a component processed in this check() is what processing it
\* alone gives, so nothing depends on the defects of the others.
C14_DefectsStayLocal ==
    phase = "checkUnused" =>
        /\ \A i \in 1..Len(appPages) : appPages[i] \in DOMAIN components
        /\ \A p \in DOMAIN components :
              \A i \in 1..Len(components[p].defs) :
                  components[p].defs[i][2] \in DOMAIN components
        /\ \A p \in Paths :
              ProcessedNow(p) =>
                  LET alone == Alone(p)
                  IN  /\ p \in DOMAIN components
                      /\ components[p] = alone.component
                      /\ ErrorsOf(errors, "fatal", p)
                            = ErrorsOf(alone.errors, "fatal", p)
                      /\ ErrorsOf(errors, "warning", p)
                            = ErrorsOf(alone.errors, "warning", p)

\* the first page has undefined names and unmatched delimiters and leads to
\* a component with a file missing; the second page, processed after both,
\* has an unused definition and is stored with a dependency resolved to the
\* first
C14_Witness ==
    /\ phase = "checkUnused" /\ run = 1
    /\ appPages = <<PA, PB>>
    /\ \E n \in ElementNames(PA) : UndefinedRecords(PA, n) = 1
    /\ BracketRecords(PA, "warning") > 0
    /\ Declares(PA, PC) /\ ~Complete(PC) /\ Defective(PC)
    /\ Complete(PB)
    /\ \E n \in DefKeys(PB) : UnusedRecords(PB, "warning", n) = 1
    /\ \E i \in 1..Len(components[PB].deps) : components[PB].deps[i].modulePath = PA

-----------------------------------------------------------------------------
\* some element of p's markup is resolved to q
Uses(p, q) ==
    /\ p \in DOMAIN components
    /\ \E i \in 1..Len(components[p].deps) : components[p].deps[i].modulePath = q

\* the keys of the map that are not entry pages
NonEntryKeys == DOMAIN components \ Range(pages)

C20_DependencyClosure ==
    (ResolverDone /\ DOMAIN lastRun.components = {}) =>
        \A p \in DOMAIN components :
            \A i \in 1..Len(components[p].deps) :
                LET modulePath == components[p].deps[i].modulePath
                IN  (modulePath # NoPath /\ Head(modulePath) # "@@") =>
                        modulePath \in DOMAIN components

\* the resolver has returned on a map in which a component depends on a
\* built-in element, on a component reached only through it, and on a name
\* that resolved to nothing
C20_Witness ==
    /\ ResolverDone /\ DOMAIN lastRun.components = {}
    /\ \E p \in DOMAIN components :
          \E i, j, k \in 1..Len(components[p].deps) :
              /\ Head(components[p].deps[i].modulePath \o <<"">>) = "@@"
              /\ components[p].deps[j].modulePath \in NonEntryKeys
              /\ components[p].deps[k].modulePath = NoPath

-----------------------------------------------------------------------------
\* the dependency entries of p that are resolved to a component's logical
\* path: not left without a path, not given a built-in's synthetic path
ComponentRefs(p) ==
    {i \in 1..Len(components[p].deps) :
        /\ components[p].deps[i].modulePath # NoPath
        /\ Head(components[p].deps[i].modulePath) # "@@"}

\* C17: when analyze() hands its graph to render, there is one node per
\* component of the map, the edge list holds exactly the (source, target)
\* pairs of the dependency entries resolved to a component's logical path,
\* none for an unresolved or a built-in target, and the weight of a node is
\* the number of edges it is the source of plus the number it is the target
\* of.
C17_GraphOfComponents ==
    phase = "analyze" =>
        /\ DOMAIN graph.nodes = DOMAIN components
        /\ DOMAIN graph.links
              = UNION {{<<p, components[p].deps[i].modulePath>> : i \in ComponentRefs(p)} :
                          p \in DOMAIN components}
        /\ \A pair \in DOMAIN graph.links :
              graph.links[pair]
                  = Cardinality({i \in ComponentRefs(pair[1]) :
                                    components[pair[1]].deps[i].modulePath = pair[2]})
        /\ \A e \in DOMAIN graph.nodes :
              graph.nodes[e].weight
                  = SumOver([pair \in DOMAIN graph.links |->
                                IF pair[1] = e THEN graph.links[pair] ELSE 0],
                            DOMAIN graph.links)
                    + SumOver([pair \in DOMAIN graph.links |->
                                  IF pair[2] = e THEN graph.links[pair] ELSE 0],
                              DOMAIN graph.links)

-----------------------------------------------------------------------------
\* node i of the hierarchy, or a node above it, is of a highlighted component
RECURSIVE InHighlighted(_)
InHighlighted(i) ==
    /\ i > 1
    /\ \/ tree[i].entry \in highlights
       \/ InHighlighted(tree[i].parent)

\* C18: in a hierarchy built with a non-empty highlight set, the color of a
\* node is cleared when its component, or the component of a node above it,
\* is in the set, page nodes included; every other node has the color of
\* its parent, which at page level is the grey default.
C18_HighlightedCleared ==
    highlights # {} =>
        \A i \in 2..Len(tree) :
            tree[i].c = IF InHighlighted(i) THEN NoColor
                        ELSE IF tree[i].parent = 1 THEN "#999"
                        ELSE tree[tree[i].parent].c

-----------------------------------------------------------------------------
\* the positions of the newlines of a text
Newlines(input) == {i \in 1..Len(input) : input[i] = "\n"}

\* the lengths of the lines of a text: line k runs from after the newline
\* before it to before the next newline, or to the end of the text
LineLengths(input) ==
    LET breaks == Newlines(input)
        nth(k) == CHOOSE i \in breaks : Cardinality({j \in breaks : j < i}) = k - 1
    IN  [k \in 1..(Cardinality(breaks) + 1) |->
            (IF k > Cardinality(breaks) THEN Len(input) + 1 ELSE nth(k))
            - (IF k = 1 THEN 0 ELSE nth(k - 1)) - 1]

\* C19: for every text and every offset from 0 to the length of the text,
\* reprStr returns a line between 1 and the number of lines and a column
\* between 1 and the length of that line plus 1, the offset is the sum of
\* (length + 1) over the lines before that line plus (col - 1), and the scan
\* does not go past the last line.
C19_LineColOfOffset ==
    (repr.done /\ repr.offset <= Len(repr.input)) =>
        LET lines == LineLengths(repr.input)
            ref == repr.ref
        IN  /\ ~ref.threw
            /\ 1 <= ref.line /\ ref.line <= Len(lines)
            /\ 1 <= ref.col /\ ref.col <= lines[ref.line] + 1
            /\ repr.offset = LineStart(lines, ref.line) + (ref.col - 1)

\* reprStr was given the end of a three-line text whose middle line is
\* empty, and returned column 2 of line 3
C19_Witness ==
    /\ repr.done
    /\ repr.input = <<"a", "\n", "\n", "a">>
    /\ repr.offset = 4
    /\ repr.ref.line = 3 /\ repr.ref.col = 2

-----------------------------------------------------------------------------
\* C21: once checkUnused() has returned, and so after a completed check(),
\* every key of the fatal bucket is a key of the component map, and every
\* key of the warning bucket is a key of the component map or the orphan
\* key, of which there is at most one: nothing is recorded for a component
\* that is not in the map.
C21_LedgerKeysInMap ==
    CheckUnusedDone =>
        /\ DOMAIN errors.fatal \subseteq DOMAIN components
        /\ DOMAIN errors.warning \subseteq DOMAIN components \cup OrphanKeys("warning")
        /\ Cardinality(OrphanKeys("warning")) <= 1
        /\ OrphanKeys("warning") \cap DOMAIN components = {}

\* a check() has completed with a component under a fatal key, a component
\* with a missing file under a warning key, and the orphan key
C21_Witness ==
    /\ phase = "idle" /\ run = 1
    /\ DOMAIN errors.fatal # {}
    /\ \E p \in DOMAIN errors.warning \cap DOMAIN components : ~Complete(p)
    /\ OrphanKeys("warning") # {}

====
